---- MODULE Spec2Model ----
(***************************************************************************)
(* WebSocketService (services/WebSocketService.ts, raw-WebSocket variant): *)
(* connection / reconnection state machine, outbound queue, listener       *)
(* registry and inbound dispatch.  Every handler of the service runs to    *)
(* completion on the single JavaScript event loop, so each public method   *)
(* and each transport or timer callback is one atomic action.              *)
(***************************************************************************)
EXTENDS Integers, Sequences, FiniteSets, TLC

\* ---------------------------------------------------------------- bounds
\* WebSocket objects that still have events to deliver
MaxTransports == 2
\* setTimeout callbacks pending at the same time
MaxTimers == 2
\* envelopes created by sendMessage in one behaviour
MaxMsgs == 2
\* Socket.IO sockets that exist at the same time (Socket.IO variant)
MaxIoSockets == 3

\* ------------------------------------------------- WebSocketConfig values
reconnection == TRUE
reconnectionAttempts == 5
reconnectionDelay == 1000
reconnectionDelayMax == 5000

\* ------------------------------------------------------------ MessageTypes
AUTHENTICATE      == "authenticate"
SEND_VIDEO_FRAME  == "send_video_frame"
SEND_AUDIO        == "send_audio"
SEND_IMU_DATA     == "send_imu_data"
REQUEST_GUIDANCE  == "request_guidance"
CONNECTION_ACK    == "connection_ack"
GUIDANCE_RESPONSE == "guidance_response"
ERROR_TYPE        == "error"

\* -------------------------------------------------------- ConnectionStatus
ConnectionStatus == {"DISCONNECTED", "CONNECTING", "CONNECTED", "RECONNECTING", "ERROR"}

\* Slots of WebSocketEventListeners.
Slots == {"onConnect", "onDisconnect", "onError", "onReconnect", "onMessage", "onGuidanceResponse"}

\* Handlers a caller registers (two distinct functions), and the empty slot.
Handlers  == {"h1", "h2"}
NoHandler == "none"

\* What the caller's onConnect handler does in one invocation: it returns, it
\* calls authenticate (the usage example), disconnect() or connect(), or it
\* raises.  Handlers of the other slots only observe.
OnConnectBodies == {"return", "send", "disconnect", "connect", "throw"}

\* Life of one WebSocket object.  readyState is CONNECTING, OPEN, CLOSING or
\* CLOSED; "FAILED" is readyState CLOSED with the error event delivered and
\* the close event of the same failure still to be dispatched; "NONE" is a
\* free slot (no object, or an object whose close event has been delivered
\* and which the service no longer references).
TransportStates == {"NONE", "CONNECTING", "OPEN", "CLOSING", "FAILED", "CLOSED"}
TransportIds    == 1..MaxTransports

VARIABLES
  transports,        \* slot -> life state of the WebSocket object in it
  ws,                \* this.ws: 0 is null, otherwise a slot
  connectionStatus,  \* this.connectionStatus
  reconnectAttempts, \* this.reconnectAttempts
  eventListeners,    \* this.eventListeners: slot -> handler or "none"
  messageQueue,      \* this.messageQueue
  isAuthenticated,   \* this.isAuthenticated
  timers,            \* delays of the pending setTimeout callbacks, in arming order
  wire,              \* envelopes WebSocket.send accepted, in order
  nextId,            \* envelopes created so far (messageId is fresh per envelope)
  calls,             \* listener invocations made by the last action, in order
  raised,            \* the last action let an exception escape to its caller
  run,               \* reconnect timers fired in the current undisturbed run, -1 when disturbed
  armed,             \* reconnect timers armed since the last open event was handled
  last,              \* the action taken last and its inputs
  io,                \* the Socket.IO variant of the service, as one record
  hook               \* the component that uses useWebSocket, as one record

vars == <<transports, ws, connectionStatus, reconnectAttempts, eventListeners,
          messageQueue, isAuthenticated, timers, wire, nextId, calls, raised, run, armed, last,
          io, hook>>

\* The service state as one value, so that a handler that calls another
\* method (or a listener that calls back into the service) composes.
St ==
  [transports |-> transports, ws |-> ws, connectionStatus |-> connectionStatus,
   reconnectAttempts |-> reconnectAttempts, eventListeners |-> eventListeners,
   messageQueue |-> messageQueue, isAuthenticated |-> isAuthenticated,
   timers |-> timers, wire |-> wire, nextId |-> nextId, calls |-> <<>>,
   raised |-> FALSE, run |-> run]

Min(a, b) == IF a <= b THEN a ELSE b

\* ---------------------------------------------------------------- helpers

\* WebSocket.readyState of the object in slot t.
readyState(s, t) ==
  IF s.transports[t] = "FAILED" THEN "CLOSED" ELSE s.transports[t]

\* A WebSocket object that can still dispatch an event to its handlers.
Alive(st) == st \in {"CONNECTING", "OPEN", "CLOSING", "FAILED"}

\* Slots whose object is gone and is not referenced by this.ws are freed.
Collect(s) ==
  [s EXCEPT !.transports =
     [t \in TransportIds |->
        IF s.transports[t] = "CLOSED" /\ s.ws # t THEN "NONE" ELSE s.transports[t]]]

\* Slot taken by `new WebSocket(url)`: the lowest one that holds no live object.
FreeSlots(s) == {t \in TransportIds : ~Alive(s.transports[t])}
NewSlot(s)   == CHOOSE t \in FreeSlots(s) : \A u \in FreeSlots(s) : t <= u

\* this.eventListeners.<slot>?.(arg)
Invoke(s, slot, arg) ==
  IF s.eventListeners[slot] = NoHandler THEN s
  ELSE [s EXCEPT !.calls = Append(@, [slot |-> slot, arg |-> arg])]

isConnected_statusOnly(s) == s.connectionStatus = "CONNECTED"

\* isConnected()
isConnected(s) ==
  /\ s.connectionStatus = "CONNECTED"
  /\ s.ws # 0
  /\ readyState(s, s.ws) = "OPEN"

\* getQueuedMessageCount()
getQueuedMessageCount(s) == Len(s.messageQueue)

\* getConnectionStatus(), getAuthenticationStatus()
getConnectionStatus(s)     == s.connectionStatus
getAuthenticationStatus(s) == s.isAuthenticated

\* ------------------------------------------------------- inbound frames

Undefined == "undefined"   \* a property that is absent reads as undefined

\* Payload values of the inbound frames that are explored.
PUndefined == [kind |-> "undefined", message |-> Undefined]
PGuidance  == [kind |-> "guidance",  message |-> Undefined]
PErrBoom   == [kind |-> "error",     message |-> "boom"]
PErrEmpty  == [kind |-> "error",     message |-> ""]

\* event.data of the message events that are explored: a non-string (binary)
\* frame, text that is not JSON, the JSON text null, and JSON objects with or
\* without a type property.
ObjectFrame(type, payload) ==
  [isString |-> TRUE, json |-> "object", type |-> type, payload |-> payload]
Frames ==
  { [isString |-> FALSE, json |-> "object", type |-> CONNECTION_ACK, payload |-> PUndefined],
    [isString |-> TRUE,  json |-> "invalid", type |-> Undefined, payload |-> PUndefined],
    [isString |-> TRUE,  json |-> "null",    type |-> Undefined, payload |-> PUndefined],
    ObjectFrame(Undefined, PGuidance),
    ObjectFrame("", PGuidance),
    ObjectFrame(CONNECTION_ACK, PUndefined),
    ObjectFrame(GUIDANCE_RESPONSE, PGuidance),
    ObjectFrame(ERROR_TYPE, PErrBoom),
    ObjectFrame(ERROR_TYPE, PErrEmpty),
    ObjectFrame(ERROR_TYPE, PUndefined),
    ObjectFrame("reconnect", PGuidance) }

JSONparse_binaryAsText(data) ==
  IF data.json = "invalid"
    THEN [threw |-> TRUE,  isNull |-> FALSE, type |-> Undefined, payload |-> PUndefined]
  ELSE IF data.json = "null"
    THEN [threw |-> FALSE, isNull |-> TRUE,  type |-> Undefined, payload |-> PUndefined]
  ELSE [threw |-> FALSE, isNull |-> FALSE, type |-> data.type, payload |-> data.payload]

\* JSON.parse(typeof event.data === 'string' ? event.data : ''): the empty
\* string and text that is not JSON throw; otherwise the parsed value.
JSONparse(data) ==
  IF ~data.isString \/ data.json = "invalid"
    THEN [threw |-> TRUE,  isNull |-> FALSE, type |-> Undefined, payload |-> PUndefined]
  ELSE IF data.json = "null"
    THEN [threw |-> FALSE, isNull |-> TRUE,  type |-> Undefined, payload |-> PUndefined]
  ELSE [threw |-> FALSE, isNull |-> FALSE, type |-> data.type, payload |-> data.payload]

Falsy_undefinedOnly(v) == v = Undefined

\* JavaScript falsiness of the string-or-undefined values that occur.
Falsy(v) == v = Undefined \/ v = ""

\* Arguments passed to a listener, in one shape for every slot.
NoNum  == 0 - 1
NoText == "-"
Arg(num, text, payload) == [num |-> num, text |-> text, payload |-> payload]

\* --------------------------------------------------------- public methods

WSclose_openOnly(st) == IF st = "OPEN" THEN "CLOSING" ELSE st

\* WebSocket.close(): a connecting or open socket starts closing.
WSclose(st) == IF st \in {"CONNECTING", "OPEN"} THEN "CLOSING" ELSE st

connect_openOnly(s, constructThrows) ==
  IF s.ws # 0 /\ readyState(s, s.ws) = "OPEN"
    THEN s
  ELSE IF constructThrows
    THEN Invoke([s EXCEPT !.connectionStatus = "ERROR"], "onError",
                Arg(NoNum, "construct", PUndefined))
  ELSE Collect([s EXCEPT !.connectionStatus = "CONNECTING",
                         !.ws = NewSlot(s),
                         !.transports[NewSlot(s)] = "CONNECTING"])

connect_resetsAttempts(s, constructThrows) ==
  IF s.ws # 0 /\ readyState(s, s.ws) \in {"OPEN", "CONNECTING"}
    THEN s
  ELSE IF constructThrows
    THEN Invoke([s EXCEPT !.connectionStatus = "ERROR"], "onError",
                Arg(NoNum, "construct", PUndefined))
  ELSE Collect([s EXCEPT !.connectionStatus = "CONNECTING",
                         !.reconnectAttempts = 0,
                         !.ws = NewSlot(s),
                         !.transports[NewSlot(s)] = "CONNECTING"])

connect_throwKeepsConnecting(s, constructThrows) ==
  IF s.ws # 0 /\ readyState(s, s.ws) \in {"OPEN", "CONNECTING"}
    THEN s
  ELSE IF constructThrows
    THEN Invoke([s EXCEPT !.connectionStatus = "CONNECTING"], "onError",
                Arg(NoNum, "construct", PUndefined))
  ELSE Collect([s EXCEPT !.connectionStatus = "CONNECTING",
                         !.ws = NewSlot(s),
                         !.transports[NewSlot(s)] = "CONNECTING"])

\* connect(serverUrl?); constructThrows: `new WebSocket(url)` throws.
connect(s, constructThrows) ==
  IF s.ws # 0 /\ readyState(s, s.ws) \in {"OPEN", "CONNECTING"}
    THEN s
  ELSE IF constructThrows
    THEN Invoke([s EXCEPT !.connectionStatus = "ERROR"], "onError",
                Arg(NoNum, "construct", PUndefined))
  ELSE Collect([s EXCEPT !.connectionStatus = "CONNECTING",
                         !.ws = NewSlot(s),
                         !.transports[NewSlot(s)] = "CONNECTING"])

disconnect_keepsAuthenticated(s) ==
  IF s.ws # 0
    THEN Collect([s EXCEPT !.transports[s.ws] = WSclose(@),
                           !.ws = 0,
                           !.connectionStatus = "DISCONNECTED"])
    ELSE s

disconnect_clearsQueue(s) ==
  IF s.ws # 0
    THEN Collect([s EXCEPT !.transports[s.ws] = WSclose(@),
                           !.ws = 0,
                           !.connectionStatus = "DISCONNECTED",
                           !.isAuthenticated = FALSE,
                           !.messageQueue = <<>>])
    ELSE s

\* disconnect()
disconnect(s) ==
  IF s.ws # 0
    THEN Collect([s EXCEPT !.transports[s.ws] = WSclose(@),
                           !.ws = 0,
                           !.connectionStatus = "DISCONNECTED",
                           !.isAuthenticated = FALSE])
    ELSE s

sendMessage_assignsQueue(s, type, writeThrows) ==
  LET message == [id |-> s.nextId + 1, type |-> type]
      s1 == [s EXCEPT !.nextId = @ + 1]
  IN IF isConnected(s1) /\ s1.ws # 0 /\ ~writeThrows
       THEN [s1 EXCEPT !.wire = Append(@, message)]
       ELSE [s1 EXCEPT !.messageQueue = <<message>>]

sendMessage_rethrows(s, type, writeThrows) ==
  LET message == [id |-> s.nextId + 1, type |-> type]
      s1 == [s EXCEPT !.nextId = @ + 1]
  IN IF isConnected(s1) /\ s1.ws # 0
       THEN IF writeThrows
              THEN [s1 EXCEPT !.raised = TRUE]
              ELSE [s1 EXCEPT !.wire = Append(@, message)]
       ELSE [s1 EXCEPT !.messageQueue = Append(@, message)]

sendMessage_unshiftsOnThrow(s, type, writeThrows) ==
  LET message == [id |-> s.nextId + 1, type |-> type]
      s1 == [s EXCEPT !.nextId = @ + 1]
  IN IF isConnected(s1) /\ s1.ws # 0
       THEN IF writeThrows
              THEN [s1 EXCEPT !.messageQueue = <<message>> \o @]
              ELSE [s1 EXCEPT !.wire = Append(@, message)]
       ELSE [s1 EXCEPT !.messageQueue = Append(@, message)]

\* sendMessage(type, payload); writeThrows: JSON.stringify or ws.send throws.
sendMessage(s, type, writeThrows) ==
  LET message == [id |-> s.nextId + 1, type |-> type]
      s1 == [s EXCEPT !.nextId = @ + 1]
  IN IF isConnected(s1) /\ s1.ws # 0
       THEN IF writeThrows
              THEN [s1 EXCEPT !.messageQueue = Append(@, message)]
              ELSE [s1 EXCEPT !.wire = Append(@, message)]
       ELSE [s1 EXCEPT !.messageQueue = Append(@, message)]

authenticate(s, writeThrows)    == sendMessage(s, AUTHENTICATE, writeThrows)
sendVideoFrame(s, writeThrows)  == sendMessage(s, SEND_VIDEO_FRAME, writeThrows)
sendAudio(s, writeThrows)       == sendMessage(s, SEND_AUDIO, writeThrows)
sendIMUData(s, writeThrows)     == sendMessage(s, SEND_IMU_DATA, writeThrows)
requestGuidance(s, writeThrows) == sendMessage(s, REQUEST_GUIDANCE, writeThrows)

RECURSIVE drain_pop(_, _)
drain_pop(s, failing) ==
  IF Len(s.messageQueue) = 0 THEN s
  ELSE LET n == Len(s.messageQueue)
           message == s.messageQueue[n]
           s1 == [s EXCEPT !.messageQueue = SubSeq(@, 1, n - 1)]
       IN drain_pop(IF message.id \in failing
                      THEN s1
                      ELSE [s1 EXCEPT !.wire = Append(@, message)],
                    failing)

drain_requeues(s, failing) ==
  [s EXCEPT !.wire = @ \o SelectSeq(s.messageQueue, LAMBDA m : m.id \notin failing),
            !.messageQueue = SelectSeq(s.messageQueue, LAMBDA m : m.id \in failing)]

\* The while loop of processMessageQueue: shift the head, try to write it,
\* drop it when the write throws (failing: ids whose write throws).
RECURSIVE drain(_, _)
drain(s, failing) ==
  IF Len(s.messageQueue) = 0 THEN s
  ELSE LET message == Head(s.messageQueue)
           s1 == [s EXCEPT !.messageQueue = Tail(@)]
       IN drain(IF message.id \in failing
                  THEN s1
                  ELSE [s1 EXCEPT !.wire = Append(@, message)],
                failing)

processMessageQueue_unguarded(s, failing) == drain(s, failing)

processMessageQueue_keepsQueue(s, failing) ==
  IF ~isConnected(s) \/ s.ws = 0 THEN s
  ELSE [drain(s, failing) EXCEPT !.messageQueue = s.messageQueue]

\* processMessageQueue()
processMessageQueue(s, failing) ==
  IF ~isConnected(s) \/ s.ws = 0 THEN s ELSE drain(s, failing)

\* clearMessageQueue()
clearMessageQueue(s) == [s EXCEPT !.messageQueue = <<>>]

on_replacesTable(s, listeners) ==
  [s EXCEPT !.eventListeners =
     [n \in Slots |-> IF n \in DOMAIN listeners THEN listeners[n] ELSE NoHandler]]

\* on(listeners): shallow merge; listeners is a function from the slots it names.
on(s, listeners) ==
  [s EXCEPT !.eventListeners =
     [n \in Slots |-> IF n \in DOMAIN listeners THEN listeners[n] ELSE @[n]]]

\* off(eventName)
off(s, eventName) == [s EXCEPT !.eventListeners[eventName] = NoHandler]

\* ------------------------------------------------- reconnect scheduling

ShouldReconnect_inclusive(attempts) ==
  reconnection /\ attempts <= reconnectionAttempts

\* The guard of the reconnect branch of onclose, on this.reconnectAttempts.
ShouldReconnect(attempts) ==
  reconnection /\ attempts < reconnectionAttempts

RECURSIVE Pow2(_)
Pow2(n) == IF n <= 0 THEN 1 ELSE 2 * Pow2(n - 1)
Delay_exponential(attempts) ==
  Min(reconnectionDelay * Pow2(attempts - 1), reconnectionDelayMax)

\* The delay passed to setTimeout, on the incremented this.reconnectAttempts.
Delay(attempts) ==
  Min(reconnectionDelay * attempts, reconnectionDelayMax)

\* ------------------------------------------ handlers installed on this.ws

\* this.eventListeners.onConnect?.() with a handler that does `body`.
onConnectListener(s, body, writeThrows) ==
  IF s.eventListeners["onConnect"] = NoHandler THEN s
  ELSE LET s1 == Invoke(s, "onConnect", Arg(NoNum, NoText, PUndefined))
       IN CASE body = "send"       -> authenticate(s1, writeThrows)
            [] body = "disconnect" -> disconnect(s1)
            [] body = "connect"    -> connect(s1, FALSE)
            [] body = "throw"      -> [s1 EXCEPT !.raised = TRUE]
            [] OTHER               -> s1

onopen_catchesListener(s, body, writeThrows, failing) ==
  LET s1 == [s EXCEPT !.connectionStatus = "CONNECTED", !.reconnectAttempts = 0]
      s2 == onConnectListener(s1, body, writeThrows)
  IN processMessageQueue([s2 EXCEPT !.raised = FALSE], failing)

onopen_keepsAttempts(s, body, writeThrows, failing) ==
  LET s1 == [s EXCEPT !.connectionStatus = "CONNECTED"]
      s2 == onConnectListener(s1, body, writeThrows)
  IN IF s2.raised THEN s2 ELSE processMessageQueue(s2, failing)

onopen_flushFirst(s, body, writeThrows, failing) ==
  LET s1 == [s EXCEPT !.connectionStatus = "CONNECTED", !.reconnectAttempts = 0]
      s2 == processMessageQueue(s1, failing)
  IN onConnectListener(s2, body, writeThrows)

\* ws.onopen
onopen(s, body, writeThrows, failing) ==
  LET s1 == [s EXCEPT !.connectionStatus = "CONNECTED", !.reconnectAttempts = 0]
      s2 == onConnectListener(s1, body, writeThrows)
  IN IF s2.raised THEN s2 ELSE processMessageQueue(s2, failing)

onclose_keepsAuthenticated(s, reason) ==
  LET s1 == Invoke([s EXCEPT !.connectionStatus = "DISCONNECTED"],
                   "onDisconnect",
                   Arg(NoNum, IF Falsy(reason) THEN "closed" ELSE reason, PUndefined))
  IN IF ShouldReconnect(s1.reconnectAttempts)
       THEN [s1 EXCEPT !.reconnectAttempts = @ + 1,
                       !.connectionStatus = "RECONNECTING",
                       !.timers = Append(@, Delay(s1.reconnectAttempts + 1))]
       ELSE s1

onclose_noReconnecting(s, reason) ==
  LET s1 == Invoke([s EXCEPT !.connectionStatus = "DISCONNECTED",
                             !.isAuthenticated = FALSE],
                   "onDisconnect",
                   Arg(NoNum, IF Falsy(reason) THEN "closed" ELSE reason, PUndefined))
  IN IF ShouldReconnect(s1.reconnectAttempts)
       THEN [s1 EXCEPT !.reconnectAttempts = @ + 1,
                       !.timers = Append(@, Delay(s1.reconnectAttempts + 1))]
       ELSE s1

\* ws.onclose; reason is event.reason
onclose(s, reason) ==
  LET s1 == Invoke([s EXCEPT !.connectionStatus = "DISCONNECTED",
                             !.isAuthenticated = FALSE],
                   "onDisconnect",
                   Arg(NoNum, IF Falsy(reason) THEN "closed" ELSE reason, PUndefined))
  IN IF ShouldReconnect(s1.reconnectAttempts)
       THEN [s1 EXCEPT !.reconnectAttempts = @ + 1,
                       !.connectionStatus = "RECONNECTING",
                       !.timers = Append(@, Delay(s1.reconnectAttempts + 1))]
       ELSE s1

onerror_schedules(s) ==
  Invoke([s EXCEPT !.connectionStatus = "ERROR",
                   !.reconnectAttempts = @ + 1,
                   !.timers = Append(@, Delay(s.reconnectAttempts + 1))],
         "onError", Arg(NoNum, "WebSocket error", PUndefined))

\* ws.onerror
onerror(s) ==
  Invoke([s EXCEPT !.connectionStatus = "ERROR"], "onError",
         Arg(NoNum, "WebSocket error", PUndefined))

dispatchKnownType_guidanceTwice(s, type, payload) ==
  IF type = CONNECTION_ACK
    THEN [s EXCEPT !.isAuthenticated = TRUE]
  ELSE IF type = GUIDANCE_RESPONSE
    THEN Invoke(Invoke(s, "onMessage", Arg(NoNum, type, payload)),
                "onGuidanceResponse", Arg(NoNum, NoText, payload))
  ELSE IF type = ERROR_TYPE
    THEN Invoke(s, "onError",
                Arg(NoNum,
                    IF payload.kind = "undefined" \/ Falsy(payload.message)
                      THEN "Server error" ELSE payload.message,
                    PUndefined))
  ELSE s

dispatchKnownType_errorSetsStatus(s, type, payload) ==
  IF type = CONNECTION_ACK
    THEN [s EXCEPT !.isAuthenticated = TRUE]
  ELSE IF type = GUIDANCE_RESPONSE
    THEN Invoke(s, "onGuidanceResponse", Arg(NoNum, NoText, payload))
  ELSE IF type = ERROR_TYPE
    THEN Invoke([s EXCEPT !.connectionStatus = "ERROR"], "onError",
                Arg(NoNum,
                    IF payload.kind = "undefined" \/ Falsy(payload.message)
                      THEN "Server error" ELSE payload.message,
                    PUndefined))
  ELSE s

\* The known-message-types chain of ws.onmessage.
dispatchKnownType(s, type, payload) ==
  IF type = CONNECTION_ACK
    THEN [s EXCEPT !.isAuthenticated = TRUE]
  ELSE IF type = GUIDANCE_RESPONSE
    THEN Invoke(s, "onGuidanceResponse", Arg(NoNum, NoText, payload))
  ELSE IF type = ERROR_TYPE
    THEN Invoke(s, "onError",
                Arg(NoNum,
                    IF payload.kind = "undefined" \/ Falsy(payload.message)
                      THEN "Server error" ELSE payload.message,
                    PUndefined))
  ELSE s

\* ws.onmessage; data is event.data
onmessage(s, data) ==
  LET parsed  == JSONparse(data)
      type    == IF parsed.isNull THEN Undefined ELSE parsed.type
      payload == IF parsed.isNull THEN PUndefined ELSE parsed.payload
  IN IF parsed.threw THEN s
     ELSE IF Falsy(type) THEN s
     ELSE Invoke(dispatchKnownType(s, type, payload), "onMessage",
                 Arg(NoNum, type, payload))

timerCallback_onlyNotifies(s, constructThrows) ==
  Invoke(s, "onReconnect", Arg(s.reconnectAttempts, NoText, PUndefined))

timerCallback_zeroBased(s, constructThrows) ==
  connect(Invoke(s, "onReconnect", Arg(s.reconnectAttempts - 1, NoText, PUndefined)),
          constructThrows)

\* The setTimeout callback armed by onclose.
timerCallback(s, constructThrows) ==
  connect(Invoke(s, "onReconnect", Arg(s.reconnectAttempts, NoText, PUndefined)),
          constructThrows)

\* ------------------------------------------------------------------ state

\* --------------------------------------------------- Socket.IO variant
\* The variant of the service built on socket.io-client.  A socket made by
\* io(url, {autoConnect: true}) is connecting until its connect event, is
\* connected until its disconnect event, after which its manager reconnects
\* it; socket.disconnect() ends it.  The handlers installed on a socket stay
\* on it for as long as it exists.
IoSocketIds == 1..MaxIoSockets

sioInit ==
  [sockets |-> [t \in IoSocketIds |-> "NONE"], socket |-> 0,
   connectionStatus |-> "DISCONNECTED", reconnectAttempts |-> 0,
   isAuthenticated |-> FALSE, messageQueue |-> <<>>, emitted |-> <<>>,
   nextId |-> 0, op |-> "init"]

\* isConnected()
sioIsConnected(s) ==
  s.connectionStatus = "CONNECTED" /\ s.socket # 0 /\ s.sockets[s.socket] = "CONNECTED"

sioFree(s) == {t \in IoSocketIds : s.sockets[t] = "NONE"}

\* connect(serverUrl?)
sioConnect(s) ==
  IF s.socket # 0 /\ s.sockets[s.socket] = "CONNECTED"
    THEN s
    ELSE LET t == CHOOSE u \in sioFree(s) : \A v \in sioFree(s) : u <= v
         IN [s EXCEPT !.connectionStatus = "CONNECTING",
                      !.socket = t,
                      !.sockets[t] = "CONNECTING"]

\* disconnect()
sioDisconnect(s) ==
  IF s.socket # 0
    THEN [s EXCEPT !.sockets[s.socket] = "NONE",
                   !.socket = 0,
                   !.connectionStatus = "DISCONNECTED",
                   !.isAuthenticated = FALSE]
    ELSE s

\* sendMessage(type, payload)
sioSendMessage(s) ==
  LET s1 == [s EXCEPT !.nextId = @ + 1]
  IN IF sioIsConnected(s1) /\ s1.socket # 0
       THEN [s1 EXCEPT !.emitted = Append(@, s1.nextId)]
       ELSE [s1 EXCEPT !.messageQueue = Append(@, s1.nextId)]

\* processMessageQueue()
sioProcessMessageQueue(s) ==
  IF ~sioIsConnected(s) \/ s.socket = 0 THEN s
  ELSE [s EXCEPT !.emitted = @ \o s.messageQueue, !.messageQueue = <<>>]

\* socket.on('connect')
sioOnConnect(s) ==
  sioProcessMessageQueue([s EXCEPT !.connectionStatus = "CONNECTED",
                                   !.reconnectAttempts = 0])

\* socket.on('disconnect')
sioOnDisconnect(s) ==
  [s EXCEPT !.connectionStatus = "DISCONNECTED", !.isAuthenticated = FALSE]

\* socket.on('connect_error')
sioOnConnectError(s) == [s EXCEPT !.connectionStatus = "ERROR"]

\* socket.on('reconnect_attempt')
sioOnReconnectAttempt(s) ==
  [s EXCEPT !.reconnectAttempts = @ + 1, !.connectionStatus = "RECONNECTING"]

\* socket.on(MessageTypes.CONNECTION_ACK)
sioOnConnectionAck(s) == [s EXCEPT !.isAuthenticated = TRUE]

\* One step of the Socket.IO variant; the raw-WebSocket service is untouched.
sioCommit(s, op) ==
  /\ io' = [s EXCEPT !.op = op]
  /\ UNCHANGED <<transports, ws, connectionStatus, reconnectAttempts, eventListeners,
                 messageQueue, isAuthenticated, timers, wire, nextId, calls, raised,
                 run, armed, last, hook>>

\* The caller's calls.
SioConnect ==
  /\ (io.socket = 0 \/ io.sockets[io.socket] # "CONNECTED") => sioFree(io) # {}
  /\ sioCommit(sioConnect(io), "connect")

SioDisconnect == sioCommit(sioDisconnect(io), "disconnect")

SioSendMessage ==
  /\ io.nextId < MaxMsgs
  /\ sioCommit(sioSendMessage(io), "send")

\* Events of the socket in slot t.
SioSocketConnect(t) ==
  /\ io.sockets[t] = "CONNECTING"
  /\ sioCommit(sioOnConnect([io EXCEPT !.sockets[t] = "CONNECTED"]), "on_connect")

SioSocketDisconnect(t) ==
  /\ io.sockets[t] = "CONNECTED"
  /\ sioCommit(sioOnDisconnect([io EXCEPT !.sockets[t] = "CONNECTING"]), "on_disconnect")

SioSocketConnectError(t) ==
  /\ io.sockets[t] = "CONNECTING"
  /\ sioCommit(sioOnConnectError(io), "on_connect_error")

SioSocketReconnectAttempt(t) ==
  /\ io.sockets[t] = "CONNECTING"
  /\ io.reconnectAttempts < reconnectionAttempts
  /\ sioCommit(sioOnReconnectAttempt(io), "on_reconnect_attempt")

SioSocketConnectionAck(t) ==
  /\ io.sockets[t] = "CONNECTED"
  /\ sioCommit(sioOnConnectionAck(io), "on_connection_ack")

\* No error event is waiting for the close event of the same failure.
Settled == \A t \in TransportIds : transports[t] # "FAILED"

\* connect() would construct a WebSocket.
WouldConstruct(s) == ~(s.ws # 0 /\ readyState(s, s.ws) \in {"OPEN", "CONNECTING"})

\* Live WebSocket objects the service no longer references.
Stale(s) == {t \in TransportIds : t # s.ws /\ Alive(s.transports[t])}

\* The action taken and its inputs: the frame of a message event, the reason
\* of a close event or the body of the onConnect handler, and whether the
\* construction or the write of the action throws, and the ids of the queued
\* envelopes whose write throws in the flush of an open event; n is the
\* number of envelopes the action put on the wire.
NoData == [isString |-> FALSE, json |-> "none", type |-> Undefined, payload |-> PUndefined]
Op(op, data, text, flag, ids) ==
  [op |-> op, data |-> data, text |-> text, flag |-> flag, ids |-> ids, n |-> 0]

Step(s, r, l) ==
  /\ transports' = s.transports
  /\ ws' = s.ws
  /\ connectionStatus' = s.connectionStatus
  /\ reconnectAttempts' = s.reconnectAttempts
  /\ eventListeners' = s.eventListeners
  /\ messageQueue' = s.messageQueue
  /\ isAuthenticated' = s.isAuthenticated
  /\ timers' = s.timers
  /\ wire' = s.wire
  /\ nextId' = s.nextId
  /\ calls' = s.calls
  /\ raised' = s.raised
  /\ run' = r
  /\ armed' = IF l.op = "open" THEN 0
               ELSE IF Len(s.timers) > Len(timers) THEN armed + 1
               ELSE armed
  /\ last' = [l EXCEPT !.n = Len(s.wire) - Len(wire)]
  /\ io' = io

\* One step of the service made by a caller other than the component.
Commit(s, r, l) ==
  /\ Step(s, r, l)
  /\ hook' = hook

\* ------------------------------------------------------------ useWebSocket
\* A component that renders useWebSocket(serverUrl, autoConnect).  mounted:
\* the component is on the screen; hasInitialized: the ref of the hook (one
\* per mounted instance); lastCall: the last of connect() / disconnect() the
\* hook called on the service.
HookUrls == {"urlA", "urlB"}

hookInit ==
  [mounted |-> FALSE, autoConnect |-> FALSE, serverUrl |-> "urlA",
   hasInitialized |-> FALSE, lastCall |-> "none"]

\* connect of the hook: WebSocketService.connect(serverUrl).
hookConnect(p, constructThrows) ==
  [hook |-> [p.hook EXCEPT !.lastCall = "connect"],
   st |-> connect(p.st, constructThrows)]

\* disconnect of the hook: WebSocketService.disconnect().
hookDisconnect(p) ==
  [hook |-> [p.hook EXCEPT !.lastCall = "disconnect"],
   st |-> disconnect(p.st)]

\* The body of the auto-connect effect.
autoConnectEffect(p, constructThrows) ==
  IF p.hook.autoConnect /\ ~p.hook.hasInitialized
    THEN hookConnect([p EXCEPT !.hook.hasInitialized = TRUE], constructThrows)
    ELSE p

\* The cleanup the auto-connect effect returned.
autoConnectCleanup(p) ==
  IF p.hook.autoConnect THEN hookDisconnect(p) ELSE p

Init ==
  /\ transports = [t \in TransportIds |-> "NONE"]
  /\ ws = 0
  /\ connectionStatus = "DISCONNECTED"
  /\ reconnectAttempts = 0
  /\ eventListeners = [n \in Slots |-> NoHandler]
  /\ messageQueue = <<>>
  /\ isAuthenticated = FALSE
  /\ timers = <<>>
  /\ wire = <<>>
  /\ nextId = 0
  /\ calls = <<>>
  /\ raised = FALSE
  /\ run = 0
  /\ armed = 0
  /\ last = Op("init", NoData, NoText, FALSE, {})
  /\ io = sioInit
  /\ hook = hookInit

\* ---------------------------------------------------------------- actions

\* The caller calls connect().
Connect(constructThrows) ==
  /\ Settled
  /\ constructThrows => WouldConstruct(St)
  /\ WouldConstruct(St) /\ ~constructThrows => FreeSlots(St) # {}
  /\ Commit(connect(St, constructThrows),
            IF WouldConstruct(St) /\ timers # <<>> THEN -1 ELSE run,
            Op("connect", NoData, NoText, constructThrows, {}))

\* The caller calls disconnect().
Disconnect ==
  /\ Settled
  /\ Commit(disconnect(St),
            IF ws # 0 /\ (Alive(transports[ws]) \/ timers # <<>>) THEN -1 ELSE run,
            Op("disconnect", NoData, NoText, FALSE, {}))

\* The caller calls sendMessage or one of its typed wrappers.
SendMessage(writeThrows) ==
  /\ Settled /\ nextId < MaxMsgs
  /\ writeThrows => isConnected(St)
  /\ Commit(sendMessage(St, "test", writeThrows), run, Op("send", NoData, NoText, writeThrows, {}))

Authenticate(writeThrows) ==
  /\ Settled /\ nextId < MaxMsgs
  /\ writeThrows => isConnected(St)
  /\ Commit(authenticate(St, writeThrows), run, Op("send", NoData, NoText, writeThrows, {}))

SendVideoFrame(writeThrows) ==
  /\ Settled /\ nextId < MaxMsgs
  /\ writeThrows => isConnected(St)
  /\ Commit(sendVideoFrame(St, writeThrows), run, Op("send", NoData, NoText, writeThrows, {}))

SendAudio(writeThrows) ==
  /\ Settled /\ nextId < MaxMsgs
  /\ writeThrows => isConnected(St)
  /\ Commit(sendAudio(St, writeThrows), run, Op("send", NoData, NoText, writeThrows, {}))

SendIMUData(writeThrows) ==
  /\ Settled /\ nextId < MaxMsgs
  /\ writeThrows => isConnected(St)
  /\ Commit(sendIMUData(St, writeThrows), run, Op("send", NoData, NoText, writeThrows, {}))

RequestGuidance(writeThrows) ==
  /\ Settled /\ nextId < MaxMsgs
  /\ writeThrows => isConnected(St)
  /\ Commit(requestGuidance(St, writeThrows), run, Op("send", NoData, NoText, writeThrows, {}))

\* The caller calls clearMessageQueue().
ClearMessageQueue ==
  /\ Settled
  /\ Commit(clearMessageQueue(St), run, Op("clear", NoData, NoText, FALSE, {}))

\* The caller calls on(listeners) / off(eventName).
On(listeners) ==
  /\ Settled
  /\ Commit(on(St, listeners), run, Op("on", NoData, NoText, FALSE, {}))

Off(eventName) ==
  /\ Settled
  /\ Commit(off(St, eventName), run, Op("off", NoData, eventName, FALSE, {}))

\* The open event of the WebSocket in slot t.
\* body, writeThrows: what the onConnect handler does and whether its write
\* throws; failing: the queued envelopes whose write throws in the flush (the
\* envelope the handler's failed write queued may be one of them).
TOpen(t, body, writeThrows, failing) ==
  /\ Settled
  /\ transports[t] = "CONNECTING"
  /\ body # "return" => eventListeners["onConnect"] # NoHandler
  /\ body = "send" => nextId < MaxMsgs
  /\ writeThrows => body = "send"
  /\ failing \subseteq {messageQueue[i].id : i \in 1..Len(messageQueue)}
                     \cup (IF writeThrows THEN {nextId + 1} ELSE {})
  /\ LET s == onopen([St EXCEPT !.transports[t] = "OPEN"], body, writeThrows, failing)
     IN Commit(s, IF s.timers = <<>> /\ Stale(s) = {} /\ s.ws = t THEN 0 ELSE -1,
               Op("open", NoData, body, writeThrows, failing))

\* The error event of the WebSocket in slot t; its close event follows.
TError(t) ==
  /\ Settled
  /\ transports[t] \in {"CONNECTING", "OPEN", "CLOSING"}
  /\ Commit(onerror([St EXCEPT !.transports[t] = "FAILED"]), run,
            Op("error", NoData, NoText, FALSE, {}))

\* The closing handshake of the open WebSocket in slot t starts (the peer
\* sent a close frame): readyState becomes CLOSING and no handler runs until
\* the close event.
TClosing(t) ==
  /\ Settled
  /\ transports[t] = "OPEN"
  /\ Commit([St EXCEPT !.transports[t] = "CLOSING"], run,
            Op("closing", NoData, NoText, FALSE, {}))

\* The close event of the WebSocket in slot t.
TClose(t, reason) ==
  /\ transports[t] \in {"OPEN", "CLOSING", "FAILED"}
  /\ Settled \/ transports[t] = "FAILED"
  /\ ShouldReconnect(reconnectAttempts) => Len(timers) < MaxTimers
  /\ Commit(Collect(onclose([St EXCEPT !.transports[t] = "CLOSED"], reason)), run,
            Op("close", NoData, reason, FALSE, {}))

\* A message event of the WebSocket in slot t.
TMessage(t, data) ==
  /\ Settled
  /\ transports[t] = "OPEN"
  /\ Commit(onmessage(St, data), run, Op("message", data, NoText, FALSE, {}))

\* The i-th pending timer expires.  A timer armed earlier with a delay that
\* is not longer expires first.
TimerFire(i, constructThrows) ==
  /\ Settled
  /\ i \in 1..Len(timers)
  /\ \A j \in 1..(i - 1) : timers[j] > timers[i]
  /\ LET s0 == [St EXCEPT !.timers = SubSeq(@, 1, i - 1) \o SubSeq(@, i + 1, Len(@))]
     IN /\ constructThrows => WouldConstruct(s0)
        /\ WouldConstruct(s0) /\ ~constructThrows => FreeSlots(s0) # {}
        /\ Commit(timerCallback(s0, constructThrows),
                  IF run >= 0 THEN run + 1 ELSE run,
                  Op("timer", NoData, NoText, constructThrows, {}))

\* The component mounts: first render and first run of the effect.
HookMount(url, auto, constructThrows) ==
  /\ Settled
  /\ ~hook.mounted
  /\ constructThrows => auto /\ WouldConstruct(St)
  /\ auto /\ WouldConstruct(St) /\ ~constructThrows => FreeSlots(St) # {}
  /\ LET p == autoConnectEffect(
                [hook |-> [mounted |-> TRUE, autoConnect |-> auto, serverUrl |-> url,
                           hasInitialized |-> FALSE, lastCall |-> "none"],
                 st |-> St], constructThrows)
     IN /\ Step(p.st, IF auto /\ WouldConstruct(St) /\ timers # <<>> THEN -1 ELSE run,
                Op("mount", NoData, NoText, constructThrows, {}))
        /\ hook' = p.hook

\* The component renders again with another serverUrl: connect of the hook
\* is a new function, so the cleanup of the effect runs and then the effect.
HookRender(url, constructThrows) ==
  /\ Settled
  /\ hook.mounted
  /\ url # hook.serverUrl
  /\ LET p0 == autoConnectCleanup([hook |-> [hook EXCEPT !.serverUrl = url], st |-> St])
         p == autoConnectEffect(p0, constructThrows)
         called == p.hook.lastCall = "connect" /\ p0.hook.hasInitialized = FALSE
     IN /\ constructThrows => called /\ WouldConstruct(p0.st)
        /\ called /\ WouldConstruct(p0.st) /\ ~constructThrows => FreeSlots(p0.st) # {}
        /\ Step(p.st,
                IF hook.autoConnect /\ ws # 0 /\ (Alive(transports[ws]) \/ timers # <<>>)
                  THEN -1 ELSE run,
                Op("render", NoData, NoText, constructThrows, {}))
        /\ hook' = p.hook

\* The component unmounts: the cleanup of the effect runs.
HookUnmount ==
  /\ Settled
  /\ hook.mounted
  /\ LET p == autoConnectCleanup([hook |-> hook, st |-> St])
     IN /\ Step(p.st,
                IF hook.autoConnect /\ ws # 0 /\ (Alive(transports[ws]) \/ timers # <<>>)
                  THEN -1 ELSE run,
                Op("unmount", NoData, NoText, FALSE, {}))
        /\ hook' = [p.hook EXCEPT !.mounted = FALSE]

\* The listener set the caller registers: a handler on every slot.
Registrations == { [n \in Slots |-> "h1"] }

Reasons == {"", "bye"}

Next ==
  \/ \E c \in BOOLEAN : Connect(c)
  \/ Disconnect
  \/ \E w \in BOOLEAN : SendMessage(w)
  \/ ClearMessageQueue
  \/ \E l \in Registrations : On(l)
  \/ \E t \in TransportIds, b \in OnConnectBodies, w \in BOOLEAN, f \in SUBSET (1..MaxMsgs) :
        TOpen(t, b, w, f)
  \/ \E t \in TransportIds : TError(t)
  \/ \E t \in TransportIds, r \in Reasons : TClose(t, r)
  \/ \E t \in TransportIds, d \in Frames : TMessage(t, d)
  \/ \E i \in 1..MaxTimers, c \in BOOLEAN : TimerFire(i, c)

Spec == Init /\ [][Next]_vars

\* The service driven through every sending method, with no listener
\* registered and no inbound frame, by a caller that reconnects by hand before
\* any reconnect timer expires.
NextQueue ==
  \/ \E c \in BOOLEAN : Connect(c)
  \/ Disconnect
  \/ \E w \in BOOLEAN : SendMessage(w)
  \/ \E w \in BOOLEAN : Authenticate(w)
  \/ \E w \in BOOLEAN : SendVideoFrame(w)
  \/ \E w \in BOOLEAN : SendAudio(w)
  \/ \E w \in BOOLEAN : SendIMUData(w)
  \/ \E w \in BOOLEAN : RequestGuidance(w)
  \/ ClearMessageQueue
  \/ \E t \in TransportIds, f \in SUBSET (1..MaxMsgs) : TOpen(t, "return", FALSE, f)
  \/ \E t \in TransportIds : TError(t)
  \/ \E t \in TransportIds : TClose(t, "")

SpecQueue == Init /\ [][NextQueue]_vars

\* The service driven by a component that uses the hook and by nothing else.
NextHook ==
  \/ \E u \in HookUrls, a \in BOOLEAN, c \in BOOLEAN : HookMount(u, a, c)
  \/ \E u \in HookUrls, c \in BOOLEAN : HookRender(u, c)
  \/ HookUnmount
  \/ SendMessage(FALSE)
  \/ \E t \in TransportIds : TOpen(t, "return", FALSE, {})
  \/ \E t \in TransportIds : TError(t)
  \/ \E t \in TransportIds : TClose(t, "")
  \/ \E i \in 1..MaxTimers, c \in BOOLEAN : TimerFire(i, c)

SpecHook == Init /\ [][NextHook]_vars

\* The service with a caller that connects and sends and never disconnects,
\* on a runtime that runs the callback of every timer that is due.
NextLive ==
  \/ \E c \in BOOLEAN : Connect(c)
  \/ SendMessage(FALSE)
  \/ \E t \in TransportIds : TOpen(t, "return", FALSE, {})
  \/ \E t \in TransportIds : TError(t)
  \/ \E t \in TransportIds : TClose(t, "")
  \/ \E i \in 1..MaxTimers, c \in BOOLEAN : TimerFire(i, c)

SpecLive ==
  /\ Init
  /\ [][NextLive]_vars
  /\ WF_vars(\E i \in 1..MaxTimers, c \in BOOLEAN : TimerFire(i, c))

\* The service on a transport whose readyState leaves OPEN before its close
\* event is dispatched, with a caller that connects, sends and disconnects.
NextReady ==
  \/ Connect(FALSE)
  \/ Disconnect
  \/ \E w \in BOOLEAN : SendMessage(w)
  \/ \E t \in TransportIds, f \in SUBSET (1..MaxMsgs) : TOpen(t, "return", FALSE, f)
  \/ \E t \in TransportIds : TClosing(t)
  \/ \E t \in TransportIds : TError(t)
  \/ \E t \in TransportIds : TClose(t, "")

SpecReady == Init /\ [][NextReady]_vars

\* Arguments of on(): every assignment of the two handlers to a non-empty
\* subset of three of the slots.
ListenSlots  == {"onConnect", "onDisconnect", "onMessage"}
ListenerArgs ==
  UNION { [D -> Handlers] : D \in (SUBSET ListenSlots) \ {{}} }

\* The listener registry driven through on() and off() while a connection
\* opens, receives a frame and closes.
NextListeners ==
  \/ \E l \in ListenerArgs : On(l)
  \/ \E n \in ListenSlots : Off(n)
  \/ Connect(FALSE)
  \/ \E t \in TransportIds : TOpen(t, "return", FALSE, {})
  \/ \E t \in TransportIds : TMessage(t, ObjectFrame("reconnect", PGuidance))
  \/ \E t \in TransportIds : TClose(t, "bye")

SpecListeners == Init /\ [][NextListeners]_vars

\* The Socket.IO variant of the service.
NextSocketIO ==
  \/ SioConnect
  \/ SioDisconnect
  \/ SioSendMessage
  \/ \E t \in IoSocketIds : SioSocketConnect(t)
  \/ \E t \in IoSocketIds : SioSocketDisconnect(t)
  \/ \E t \in IoSocketIds : SioSocketConnectError(t)
  \/ \E t \in IoSocketIds : SioSocketReconnectAttempt(t)
  \/ \E t \in IoSocketIds : SioSocketConnectionAck(t)

SpecSocketIO == Init /\ [][NextSocketIO]_vars

\* ----------------------------------------------------------- properties

\* Envelopes the step put on the wire.
Written == SubSeq(wire', Len(wire) + 1, Len(wire'))

\* The WebSocket whose close event the step delivers was closed by disconnect().
ManualClose ==
  /\ last'.op = "close"
  /\ \E t \in TransportIds : transports[t] = "CLOSING" /\ transports'[t] # "CLOSING"

\* C1: disconnect() called while a reconnect timer is pending (status
\* RECONNECTING after a close) cancels that timer, so that it can neither
\* invoke onReconnect nor call connect() afterwards.
C1_DisconnectCancelsTimer ==
  [][(last'.op = "disconnect" /\ ws # 0 /\ connectionStatus = "RECONNECTING"
        /\ timers # <<>>)
       => timers' = <<>>]_vars

\* C2: the close event of a WebSocket that disconnect() closed does not arm
\* the reconnect scheduler, does not increment the attempt counter and does
\* not move the status to RECONNECTING.
C2_ManualCloseDoesNotReconnect ==
  [][ManualClose => /\ timers' = timers
                    /\ reconnectAttempts' = reconnectAttempts
                    /\ connectionStatus' # "RECONNECTING"]_vars

\* C3: in every reachable state at most one reconnect timer is pending.
C3_AtMostOneTimer == Len(timers) <= 1

\* C4: a send made while not connected makes the queue one longer, so N
\* such calls from an empty queue leave getQueuedMessageCount() = N, through
\* sendMessage and each typed wrapper; clearMessageQueue() in any state
\* leaves getQueuedMessageCount() = 0.
C4_QueueCount ==
  [][/\ (last'.op = "send" /\ ~isConnected(St))
          => /\ getQueuedMessageCount(St)' = getQueuedMessageCount(St) + 1
             /\ messageQueue' = Append(messageQueue, messageQueue'[Len(messageQueue')])
     /\ last'.op = "clear" => getQueuedMessageCount(St)' = 0]_vars

\* Two sends were queued while a reconnect is pending.
C4_Witness ==
  /\ last.op = "send"
  /\ connectionStatus = "RECONNECTING"
  /\ getQueuedMessageCount(St) = 2
  /\ messageQueue[1].type = SEND_VIDEO_FRAME

\* Ids of a sequence of envelopes, in order.
Ids(q) == [i \in 1..Len(q) |-> q[i].id]

C6_DelayTable == <<1000, 2000, 3000, 4000, 5000>>
NoType(data) ==
  /\ data.isString
  /\ \/ data.json = "null"
     \/ data.json = "object" /\ data.type \in {Undefined, ""}

\* C7: an inbound frame that parses but has no type (or an empty type)
\* invokes no listener and leaves status, authentication flag, attempt
\* counter and queue unchanged.
C7_NoTypeDiscarded ==
  [][(last'.op = "message" /\ NoType(last'.data))
       => /\ calls' = <<>>
          /\ UNCHANGED <<connectionStatus, isAuthenticated, reconnectAttempts,
                         messageQueue>>]_vars

\* A frame with an empty type was handled with every listener registered.
C7_Witness ==
  /\ last.op = "message" /\ last.data.json = "object" /\ last.data.type = ""
  /\ \A n \in Slots : eventListeners[n] # NoHandler

\* The frame is a text frame holding a connection_ack envelope.
IsAck(data) == data.isString /\ data.json = "object" /\ data.type = CONNECTION_ACK

\* C8: handling connection_ack sets the authentication flag; disconnect()
\* after it and every close event clear it; no other frame sets it.
C8_AuthenticationFlag ==
  [][/\ (last'.op = "message" /\ IsAck(last'.data)) => getAuthenticationStatus(St)'
     /\ (last'.op = "message" /\ ~IsAck(last'.data))
          => (getAuthenticationStatus(St)' = getAuthenticationStatus(St))
     /\ (last'.op = "disconnect" /\ (ws # 0 \/ isAuthenticated))
          => ~getAuthenticationStatus(St)'
     /\ last'.op = "close" => ~getAuthenticationStatus(St)']_vars

\* A connection_ack frame has just been handled.
C8_Witness ==
  /\ last.op = "message" /\ IsAck(last.data)
  /\ getAuthenticationStatus(St)

\* No WebSocket object has an event left to deliver.
NoneAlive == \A t \in TransportIds : ~Alive(transports[t])

\* C9: in a run of closes the caller does not disturb, the reconnect timers
\* fired plus the one pending equal the attempt counter, which never passes
\* reconnectionAttempts (5), so the run makes exactly 5 attempts; a close
\* handled with the counter at 5 arms nothing and leaves DISCONNECTED, and
\* that lasts until the caller calls connect().
C9_AttemptsExhaust ==
  /\ [](/\ reconnectAttempts <= reconnectionAttempts
        /\ armed <= 5
        /\ run >= 0 => /\ run + Len(timers) = reconnectAttempts
                       /\ Len(timers) <= 1)
  /\ [][(last'.op = "close" /\ reconnectAttempts = 5)
          => /\ timers' = timers
             /\ connectionStatus' = "DISCONNECTED"]_vars
  /\ [][(run = 5 /\ timers = <<>> /\ NoneAlive /\ connectionStatus = "DISCONNECTED"
           /\ last'.op # "connect")
          => /\ timers' = <<>>
             /\ connectionStatus' = "DISCONNECTED"
             /\ NoneAlive']_vars

\* Five reconnect timers fired and the transport of the fifth attempt closed.
C9_Witness ==
  /\ last.op = "close" /\ run = 5 /\ reconnectAttempts = 5
  /\ timers = <<>> /\ NoneAlive
  /\ connectionStatus = "DISCONNECTED"

\* Every slot holds a handler.
AllRegistered == \A n \in Slots : eventListeners[n] # NoHandler

\* C10: a guidance_response frame invokes onGuidanceResponse once with the
\* payload and then onMessage once with the same type and payload; a frame
\* of a type other than connection_ack, guidance_response and error invokes
\* onMessage once and nothing else.
C10_Dispatch ==
  [][(last'.op = "message" /\ last'.data.isString /\ last'.data.json = "object"
        /\ AllRegistered)
       => /\ last'.data.type = GUIDANCE_RESPONSE
               => calls' = << [slot |-> "onGuidanceResponse",
                               arg |-> Arg(NoNum, NoText, last'.data.payload)],
                              [slot |-> "onMessage",
                               arg |-> Arg(NoNum, GUIDANCE_RESPONSE, last'.data.payload)] >>
          /\ last'.data.type \notin {Undefined, "", CONNECTION_ACK, GUIDANCE_RESPONSE, ERROR_TYPE}
               => calls' = << [slot |-> "onMessage",
                               arg |-> Arg(NoNum, last'.data.type, last'.data.payload)] >>]_vars

\* A guidance_response frame was dispatched to both listeners.
C10_Witness ==
  /\ last.op = "message" /\ last.data.type = GUIDANCE_RESPONSE
  /\ Len(calls) = 2
  /\ calls[1].slot = "onGuidanceResponse" /\ calls[2].slot = "onMessage"

\* The envelope a send of the step creates.
NewEnvelope == [id |-> nextId + 1, type |-> "test"]

\* C11: sendMessage never raises to its caller and has exactly one outcome:
\* with status CONNECTED, an open transport and a write that succeeds the
\* envelope is written once and the queue is unchanged; otherwise (not
\* connected, or the write throws) it is appended to the tail of the queue
\* and nothing is written.
C11_SendOutcome ==
  [][last'.op = "send"
       => /\ ~raised'
          /\ IF /\ connectionStatus = "CONNECTED"
                /\ ws # 0
                /\ transports[ws] = "OPEN"
                /\ ~last'.flag
               THEN /\ wire' = Append(wire, NewEnvelope)
                    /\ messageQueue' = messageQueue
               ELSE /\ messageQueue' = Append(messageQueue, NewEnvelope)
                    /\ wire' = wire]_vars

\* A write threw while connected and the envelope was queued behind another.
C11_Witness ==
  /\ last.op = "send" /\ last.flag
  /\ connectionStatus = "CONNECTED"
  /\ Ids(messageQueue) = <<1, 2>>
  /\ wire = <<>>
  /\ ~raised

\* C12: connect() called while this.ws exists and is connecting or open
\* creates no transport, leaves status, attempt counter, authentication flag
\* and queue unchanged, and invokes no listener.
C12_ConnectIdempotent ==
  [][(last'.op = "connect" /\ ws # 0 /\ transports[ws] \in {"CONNECTING", "OPEN"})
       => /\ UNCHANGED <<transports, ws, connectionStatus, reconnectAttempts,
                         isAuthenticated, messageQueue, timers>>
          /\ calls' = <<>>
          /\ ~raised']_vars

\* connect() was called on an authenticated open connection whose status a
\* stale close event had moved to RECONNECTING.
C12_Witness ==
  /\ last.op = "connect"
  /\ ws # 0 /\ transports[ws] = "OPEN"
  /\ isAuthenticated
  /\ connectionStatus = "RECONNECTING"

\* WebSocket objects whose readyState is CONNECTING or OPEN.
Active == {t \in TransportIds : transports[t] \in {"CONNECTING", "OPEN"}}

\* C13: in every reachable state at most one WebSocket created by the
\* service is connecting or open, and it is the one this.ws refers to.
C13_OneActiveTransport ==
  /\ Cardinality(Active) <= 1
  /\ \A t \in Active : ws = t

\* A new WebSocket is connecting while the one disconnect() closed has not
\* yet delivered its close event.
C13_Witness ==
  /\ Cardinality(Active) = 1
  /\ \E t \in TransportIds : transports[t] = "CLOSING" /\ t # ws
  /\ last.op = "timer"

\* Invocations of a slot among the listener calls of a step.
CallsOf(cs, slot) == Len(SelectSeq(cs, LAMBDA c : c.slot = slot))

\* C14: when `new WebSocket` throws inside connect(), called by the caller or
\* by a reconnect timer, connect() returns without raising, status is ERROR,
\* the registered onError listener has been invoked exactly once, as the last
\* call of the step, no reconnect timer is armed, the attempt counter is
\* unchanged and no transport was created.
C14_ConstructionFailure ==
  [][(last'.op \in {"connect", "timer"} /\ last'.flag)
       => /\ ~raised'
          /\ connectionStatus' = "ERROR"
          /\ reconnectAttempts' = reconnectAttempts
          /\ transports' = transports /\ ws' = ws
          /\ Len(timers') = Len(timers) - (IF last'.op = "timer" THEN 1 ELSE 0)
          /\ CallsOf(calls', "onError")
               = (IF eventListeners["onError"] = NoHandler THEN 0 ELSE 1)
          /\ eventListeners["onError"] # NoHandler
               => calls'[Len(calls')].slot = "onError"
          /\ Len(calls') = CallsOf(calls', "onError") + CallsOf(calls', "onReconnect")]_vars

\* The connect() of a reconnect timer failed in construction: onReconnect
\* and then onError ran, and nothing is pending.
C14_Witness ==
  /\ last.op = "timer" /\ last.flag
  /\ connectionStatus = "ERROR"
  /\ Len(calls) = 2 /\ calls[1].slot = "onReconnect" /\ calls[2].slot = "onError"
  /\ timers = <<>>
  /\ reconnectAttempts = 1

\* C15: after disconnect() returns, in whatever state it was called,
\* getConnectionStatus() is DISCONNECTED, isConnected() and
\* getAuthenticationStatus() are false, this.ws is discarded and nothing was
\* raised.
C15_AfterDisconnect ==
  [][last'.op = "disconnect"
       => /\ getConnectionStatus(St)' = "DISCONNECTED"
          /\ ~isConnected(St)'
          /\ ~getAuthenticationStatus(St)'
          /\ ws' = 0
          /\ ~raised']_vars

\* C16: isConnected() is true exactly when status is CONNECTED and this.ws
\* exists and its readyState is OPEN; it is false with status CONNECTED on a
\* socket that is closing, failed or closed, without a socket, and on an open
\* socket under any other status.
C16_IsConnected ==
  /\ isConnected(St) <=> /\ connectionStatus = "CONNECTED"
                         /\ ws # 0
                         /\ transports[ws] = "OPEN"
  /\ (connectionStatus = "CONNECTED" /\ ws # 0
        /\ transports[ws] \in {"CONNECTING", "CLOSING", "FAILED", "CLOSED"})
       => ~isConnected(St)
  /\ ws = 0 => ~isConnected(St)
  /\ connectionStatus # "CONNECTED" => ~isConnected(St)

\* Status is still CONNECTED on a socket whose closing handshake has begun,
\* and the send made in that state was queued.
C16_Witness ==
  /\ connectionStatus = "CONNECTED"
  /\ ws # 0 /\ transports[ws] = "CLOSING"
  /\ ~isConnected(St)
  /\ last.op = "send" /\ messageQueue # <<>>

\* C17: on(listeners) sets exactly the slots its argument names and leaves
\* the other slots as they were; off(name) empties that slot and no other;
\* neither raises nor changes status, queue or transports; and a listener is
\* invoked only for a slot that held a handler when the event was handled.
C17_Registry ==
  [][/\ \A l \in ListenerArgs :
          On(l) => /\ \A n \in Slots :
                        eventListeners'[n] = IF n \in DOMAIN l THEN l[n]
                                             ELSE eventListeners[n]
                   /\ \A n \in Slots : eventListeners'[n] \in Handlers \cup {NoHandler}
     /\ \A name \in Slots :
          Off(name) => /\ eventListeners'[name] = NoHandler
                       /\ \A n \in Slots \ {name} : eventListeners'[n] = eventListeners[n]
     /\ last'.op \in {"on", "off"}
          => /\ ~raised' /\ calls' = <<>>
             /\ UNCHANGED <<connectionStatus, messageQueue, transports, ws, wire,
                            isAuthenticated, reconnectAttempts, timers>>
     /\ \A i \in 1..Len(calls') : eventListeners[calls'[i].slot] # NoHandler]_vars

\* off("onMessage") has just run after on() put different handlers in the
\* onConnect and onDisconnect slots, which keep them.
C17_Witness ==
  /\ last.op = "off" /\ last.text = "onMessage"
  /\ eventListeners["onMessage"] = NoHandler
  /\ eventListeners["onConnect"] = "h1"
  /\ eventListeners["onDisconnect"] = "h2"

\* The envelope the onConnect handler of the step sends, as a sequence:
\* written at once, or queued because its write threw, or none.
SentByListener == <<[id |-> nextId + 1, type |-> AUTHENTICATE]>>
ListenerDirect ==
  IF last'.text = "send" /\ ~last'.flag THEN SentByListener ELSE <<>>
ListenerQueued ==
  IF last'.text = "send" /\ last'.flag THEN SentByListener ELSE <<>>

C19_AtMostOnce ==
  /\ \A i, j \in 1..Len(wire) : wire[i].id = wire[j].id => i = j
  /\ \A i \in 1..Len(wire), j \in 1..Len(messageQueue) : wire[i].id # messageQueue[j].id
  /\ \A i, j \in 1..Len(messageQueue) : messageQueue[i].id = messageQueue[j].id => i = j

\* After an earlier connection carried one envelope, the listener's send
\* failed on a new connection, was queued and then written by the flush.
C19_Witness ==
  /\ last.op = "open" /\ last.text = "send" /\ last.flag /\ last.n = 1
  /\ Ids(wire) = <<1, 2>>
  /\ messageQueue = <<>>
  /\ armed = 0 /\ run = 0

C21_ReconnectingUntilTimer ==
  [][(connectionStatus = "RECONNECTING" /\ timers # <<>> /\ run >= 0
        /\ Len(timers') >= Len(timers))
       => connectionStatus' = "RECONNECTING"]_vars

\* C21 amended: the close handler clears the authentication flag and
\* invokes onDisconnect once with the reason ('closed' for an empty one);
\* with reconnection enabled and the counter below the maximum it arms one
\* more timer, increments the counter and leaves RECONNECTING, otherwise it
\* arms nothing and leaves DISCONNECTED; sends, queue clears, registrations
\* and frames do not change that status, and in a run the caller does not
\* disturb by connect() or disconnect() it lasts until the timer fires.
C21_CloseHandling ==
  /\ [][/\ last'.op = "close"
             => /\ ~isAuthenticated'
                /\ calls' = IF eventListeners["onDisconnect"] = NoHandler THEN <<>>
                            ELSE << [slot |-> "onDisconnect",
                                     arg |-> Arg(NoNum,
                                                 IF last'.text = "" THEN "closed"
                                                 ELSE last'.text,
                                                 PUndefined)] >>
                /\ IF reconnection /\ reconnectAttempts < reconnectionAttempts
                     THEN /\ Len(timers') = Len(timers) + 1
                          /\ SubSeq(timers', 1, Len(timers)) = timers
                          /\ reconnectAttempts' = reconnectAttempts + 1
                          /\ connectionStatus' = "RECONNECTING"
                     ELSE /\ timers' = timers
                          /\ reconnectAttempts' = reconnectAttempts
                          /\ connectionStatus' = "DISCONNECTED"
        /\ (connectionStatus = "RECONNECTING"
              /\ last'.op \in {"send", "clear", "on", "off", "message"})
             => /\ connectionStatus' = "RECONNECTING"
                /\ timers' = timers]_vars
  /\ []((run >= 0 /\ timers # <<>>) => connectionStatus = "RECONNECTING")

\* A close event with a reason armed the second attempt of a run.
C21_Witness ==
  /\ last.op = "close" /\ last.text = "bye"
  /\ connectionStatus = "RECONNECTING"
  /\ run = 1 /\ reconnectAttempts = 2 /\ timers = <<2000>>
  /\ Len(calls) = 1 /\ calls[1].arg.text = "bye"

\* C22: handling an error event sets status ERROR and invokes onError once,
\* and leaves the attempt counter, the pending timers, this.ws, the queue,
\* the wire and the authentication flag unchanged.
C22_ErrorEvent ==
  [][last'.op = "error"
       => /\ connectionStatus' = "ERROR"
          /\ calls' = IF eventListeners["onError"] = NoHandler THEN <<>>
                      ELSE << [slot |-> "onError",
                               arg |-> Arg(NoNum, "WebSocket error", PUndefined)] >>
          /\ ~raised'
          /\ UNCHANGED <<reconnectAttempts, timers, ws, messageQueue, wire,
                         isAuthenticated>>]_vars

\* An error event was handled on the authenticated current socket.
C22_Witness ==
  /\ last.op = "error"
  /\ connectionStatus = "ERROR"
  /\ ws # 0 /\ transports[ws] = "FAILED"
  /\ isAuthenticated
  /\ Len(calls) = 1 /\ calls[1].slot = "onError"
  /\ timers = <<>>

\* C23: in every reachable state the attempt counter is between 0 and
\* reconnectionAttempts, and it is 0 right after a handled open event.
C23_CounterRange ==
  /\ reconnectAttempts \in 0..reconnectionAttempts
  /\ last.op = "open" => reconnectAttempts = 0

\* The fifth attempt of a run is connecting: the counter is at its maximum.
C23_Witness ==
  /\ reconnectAttempts = reconnectionAttempts
  /\ last.op = "timer" /\ connectionStatus = "CONNECTING"
  /\ run = 5

\* C24: in a flush, an entry whose write throws is dropped (neither written
\* nor queued again), the other entries are written in their order, nothing
\* is raised and the queue is empty afterwards, however many writes failed.
C24_FlushDropsFailedWrites ==
  [][(last'.op = "open" /\ last'.text = "return" /\ last'.ids # {})
       => /\ ~raised'
          /\ messageQueue' = <<>>
          /\ Len(Written) = Len(messageQueue) - Cardinality(last'.ids)
          /\ \A i \in 1..Len(messageQueue) :
               IF messageQueue[i].id \in last'.ids
                 THEN \A k \in 1..Len(wire') : wire'[k].id # messageQueue[i].id
                 ELSE \E k \in 1..Len(Written) : Written[k] = messageQueue[i]
          /\ \A j, k \in 1..Len(Written) : j < k => Written[j].id < Written[k].id]_vars

\* The first of two queued envelopes was dropped and the second written.
C24_Witness ==
  /\ last.op = "open" /\ last.text = "return" /\ last.ids = {1}
  /\ Ids(wire) = <<2>>
  /\ messageQueue = <<>>
  /\ ~raised

\* C25: once an open event has been handled no reconnect timer armed before
\* it fires: no timer expires, invoking onReconnect and calling connect(),
\* while status is CONNECTED.
C25_OpenCancelsTimer ==
  [][last'.op = "timer" => connectionStatus # "CONNECTED"]_vars

\* The frame is a text frame holding an envelope of type error.
IsErrorFrame(data) == data.isString /\ data.json = "object" /\ data.type = ERROR_TYPE

\* C26: a frame of type error invokes onError exactly once, with the
\* payload's message or 'Server error' when there is none, and leaves status,
\* authentication flag, attempt counter, queue and timers unchanged.
C26_ErrorFrame ==
  [][(last'.op = "message" /\ IsErrorFrame(last'.data))
       => /\ CallsOf(calls', "onError")
               = (IF eventListeners["onError"] = NoHandler THEN 0 ELSE 1)
          /\ \A i \in 1..Len(calls') :
               calls'[i].slot = "onError"
                 => calls'[i].arg.text
                      = (IF last'.data.payload.message \in {Undefined, ""}
                           THEN "Server error" ELSE last'.data.payload.message)
          /\ ~raised'
          /\ UNCHANGED <<connectionStatus, isAuthenticated, reconnectAttempts,
                         messageQueue, timers>>]_vars

\* An error frame without a message reached onError as 'Server error' on an
\* authenticated connection.
C26_Witness ==
  /\ last.op = "message" /\ IsErrorFrame(last.data)
  /\ last.data.payload = PUndefined
  /\ calls # <<>> /\ calls[1].slot = "onError" /\ calls[1].arg.text = "Server error"
  /\ isAuthenticated /\ connectionStatus = "CONNECTED"

\* event.data that JSON.parse rejects: a non-string frame or invalid text.
Unparseable(data) == ~data.isString \/ data.json = "invalid"

\* C27: unparseable inbound data invokes no listener (onError included),
\* raises nothing and leaves status, authentication flag, attempt counter and
\* queue unchanged.
C27_UnparseableSwallowed ==
  [][(last'.op = "message" /\ Unparseable(last'.data))
       => /\ calls' = <<>>
          /\ ~raised'
          /\ UNCHANGED <<connectionStatus, isAuthenticated, reconnectAttempts,
                         messageQueue, timers, wire>>]_vars

\* A binary frame carrying a connection_ack was swallowed with every
\* listener registered: the service is still unauthenticated.
C27_Witness ==
  /\ last.op = "message" /\ ~last.data.isString
  /\ AllRegistered
  /\ calls = <<>>
  /\ ~isAuthenticated /\ connectionStatus = "CONNECTED"

\* C28: connect(), disconnect(), close and error events, inbound frames and
\* timer expiries leave the queue as it is; an entry leaves the queue only in
\* the flush of an open event or in clearMessageQueue().
C28_QueueKept ==
  [][/\ last'.op \in {"connect", "disconnect", "close", "error", "message", "timer"}
          => messageQueue' = messageQueue
     /\ (\E i \in 1..Len(messageQueue) :
           \A j \in 1..Len(messageQueue') : messageQueue'[j] # messageQueue[i])
          => last'.op \in {"open", "clear"}]_vars

\* Two queued envelopes are still queued, in order, after a disconnect()
\* that closed a socket.
C28_Witness ==
  /\ last.op = "disconnect"
  /\ Ids(messageQueue) = <<1, 2>>
  /\ ws = 0 /\ connectionStatus = "DISCONNECTED"
  /\ \E t \in TransportIds : transports[t] = "CLOSING"

\* C29: in a run of reconnect attempts the expiry of the k-th timer invokes
\* onReconnect first, with k, and then calls connect(), which constructs the
\* next WebSocket or, when the construction throws, reports through onError.
C29_ReconnectNumbers ==
  [][(last'.op = "timer" /\ run >= 0)
       => /\ run' = run + 1
          /\ eventListeners["onReconnect"] # NoHandler
               => /\ calls' # <<>>
                  /\ calls'[1] = [slot |-> "onReconnect",
                                  arg |-> Arg(run + 1, NoText, PUndefined)]
                  /\ CallsOf(calls', "onReconnect") = 1
          /\ IF last'.flag
               THEN /\ connectionStatus' = "ERROR"
                    /\ eventListeners["onError"] # NoHandler
                         => calls'[Len(calls')].slot = "onError"
               ELSE /\ connectionStatus' = "CONNECTING"
                    /\ ws' # 0 /\ transports'[ws'] = "CONNECTING"]_vars

\* The third timer of a run fired and onReconnect received 3.
C29_Witness ==
  /\ last.op = "timer" /\ ~last.flag
  /\ run = 3
  /\ calls # <<>> /\ calls[1].slot = "onReconnect" /\ calls[1].arg.num = 3
  /\ connectionStatus = "CONNECTING"

\* C30: in the Socket.IO variant, connect() called while this.socket exists
\* and is still connecting creates no second socket (and so installs no
\* second set of handlers) and keeps this.socket.
C30_SioConnectWhileConnecting ==
  [][(io'.op = "connect" /\ io.socket # 0 /\ io.sockets[io.socket] = "CONNECTING")
       => /\ io'.sockets = io.sockets
          /\ io'.socket = io.socket]_vars

\* C31: while a component that uses useWebSocket(url, true) is mounted, the
\* last of connect() and disconnect() its hook called on the service is
\* connect(), also after the effect ran again for a changed serverUrl.
C31_AutoConnectKeepsConnected ==
  (hook.mounted /\ hook.autoConnect) => hook.lastCall = "connect"

C33_OpenHandleImpliesConnected ==
  (ws # 0 /\ transports[ws] = "OPEN") => connectionStatus = "CONNECTED"

\* C34: whenever status is CONNECTED and the transport is open, the
\* outbound queue is empty.
C34_ConnectedImpliesEmptyQueue ==
  isConnected(St) => messageQueue = <<>>

\* C34 (amended): a step that ends connected with a non-empty queue either
\* started connected and left the queue as it was, or is an open event whose
\* onConnect handler raised (the queue is as before the event), or is a send
\* made while connected whose write threw (the queue gained that envelope).
C34_QueuedWhileConnected ==
  [][(isConnected(St)' /\ messageQueue' # <<>>)
       => \/ isConnected(St) /\ messageQueue' = messageQueue
          \/ last'.op = "open" /\ raised' /\ messageQueue' = messageQueue
          \/ /\ last'.op = "send" /\ last'.flag /\ isConnected(St)
             /\ messageQueue' = Append(messageQueue, NewEnvelope)]_vars

\* Connected with one queued envelope, put there by a send whose write threw.
C34_Witness ==
  /\ isConnected(St)
  /\ last.op = "send" /\ last.flag
  /\ Len(messageQueue) = 1
  /\ wire = <<>>

\* C35: every invocation of the onReconnect listener receives an attempt
\* number between 1 and the configured maximum.
C35_ReconnectNumberInRange ==
  [][\A i \in 1..Len(calls') :
        (last'.op = "timer" /\ calls'[i].slot = "onReconnect")
          => calls'[i].arg.num \in 1..reconnectionAttempts]_vars

\* C36: the attempt counter decreases only in an open event, which sets it
\* to 0; connect(), disconnect(), sends, clearMessageQueue(), on(), error
\* events and inbound messages leave it unchanged; so a close event handled
\* with the counter at the maximum, also one of a transport that a manual
\* connect() made, arms no timer and leaves the counter and DISCONNECTED.
C36_CounterResetOnlyByOpen ==
  [][/\ last'.op \in {"connect", "disconnect", "send", "clear", "on", "error", "message"}
          => reconnectAttempts' = reconnectAttempts
     /\ reconnectAttempts' < reconnectAttempts
          => last'.op = "open" /\ reconnectAttempts' = 0
     /\ (last'.op = "close" /\ reconnectAttempts = reconnectionAttempts)
          => /\ timers' = timers
             /\ reconnectAttempts' = reconnectAttempts
             /\ connectionStatus' = "DISCONNECTED"]_vars

\* The caller's connect() made a transport after the maximum was reached and
\* every timer had fired: the counter is still at the maximum.
C36_Witness ==
  /\ last.op = "connect" /\ ~last.flag
  /\ reconnectAttempts = reconnectionAttempts
  /\ timers = <<>>
  /\ connectionStatus = "CONNECTING"
  /\ ws # 0 /\ transports[ws] = "CONNECTING"

\* C37: when timers that are due fire and the caller never disconnects,
\* after a close event handled with the counter below the maximum (status
\* RECONNECTING) a connection attempt eventually starts: the current
\* transport is connecting or open, or the construction threw and status is
\* ERROR.
C37_ReconnectEventuallyStarts ==
  (last.op = "close" /\ connectionStatus = "RECONNECTING")
    ~> \/ ws # 0 /\ transports[ws] \in {"CONNECTING", "OPEN"}
       \/ /\ connectionStatus = "ERROR"
          /\ last.op \in {"timer", "connect"} /\ last.flag

\* The timer armed by the second close of a run fired and its connect() made
\* a transport.
C37_Witness ==
  /\ last.op = "timer" /\ ~last.flag
  /\ reconnectAttempts = 2 /\ armed = 2
  /\ timers = <<>>
  /\ ws # 0 /\ transports[ws] = "CONNECTING"

\* C38: an open event leaves no envelope in the queue while status is
\* CONNECTED and the transport is open, whatever the onConnect listener does.
C38_OpenAlwaysFlushes ==
  [][(last'.op = "open" /\ isConnected(St)') => messageQueue' = <<>>]_vars

\* C38 (amended): an open event whose onConnect listener returns, having sent
\* or called connect() or done nothing, ends connected with an empty queue;
\* one whose listener raises ends with status CONNECTED, the exception
\* propagated, the queue as before and nothing written; one whose listener
\* calls disconnect() ends DISCONNECTED with no transport, the queue as
\* before and nothing written.
C38_OpenFlushesUnlessListenerRaises ==
  [][last'.op = "open"
       => /\ last'.text \in {"return", "send", "connect"}
               => /\ ~raised'
                  /\ isConnected(St)'
                  /\ messageQueue' = <<>>
          /\ last'.text = "throw"
               => /\ raised'
                  /\ connectionStatus' = "CONNECTED"
                  /\ messageQueue' = messageQueue
                  /\ wire' = wire
          /\ last'.text = "disconnect"
               => /\ ~raised'
                  /\ connectionStatus' = "DISCONNECTED" /\ ws' = 0
                  /\ messageQueue' = messageQueue
                  /\ wire' = wire]_vars

\* The onConnect listener raised in an open event with an envelope queued:
\* the envelope is still queued with the connection up.
C38_Witness ==
  /\ last.op = "open" /\ last.text = "throw"
  /\ raised
  /\ connectionStatus = "CONNECTED"
  /\ ws # 0 /\ transports[ws] = "OPEN"
  /\ messageQueue # <<>>

\* C39: envelopes are put on a transport only by a send made while status is
\* CONNECTED and the current transport is open, and by an open event of the
\* current transport that ends with status CONNECTED and that transport
\* open; no other step writes, and none writes while status is DISCONNECTED,
\* CONNECTING, RECONNECTING or ERROR.
C39_WritesOnlyWhileConnected ==
  [][Written # <<>>
       => /\ last'.op \in {"send", "open"}
          /\ last'.op = "send"
               => /\ isConnected(St)
                  /\ isConnected(St)' /\ ws' = ws
          /\ last'.op = "open"
               => /\ isConnected(St)'
                  /\ transports[ws'] = "CONNECTING"]_vars

\* An open event in which the onConnect listener's send and the flush of one
\* queued envelope both wrote, with the connection up afterwards.
C39_Witness ==
  /\ last.op = "open" /\ last.text = "send" /\ ~last.flag
  /\ last.n = 2
  /\ Len(wire) = 2
  /\ isConnected(St)
  /\ messageQueue = <<>>

====
